---- MODULE Spec2Model ----
(***************************************************************************)
(* Operator-side deployment tool of the DS18B20 temperature logger.        *)
(*                                                                         *)
(* This module models upload_recursive (tools/upload_app_to_rpi.py), the   *)
(* one-directional mirror of the local project directory onto the          *)
(* Raspberry Pi over SFTP: a deletion pass (_delete_extra_remote_files,    *)
(* _remove_remote_dir) followed by an upload pass (_upload_dir,            *)
(* _upload_file_if_newer).  The Python call stack is an explicit stack of  *)
(* frames; every action issues at most one SFTP request and handles the    *)
(* IOError it may raise exactly where the code's try/except does.          *)
(*                                                                         *)
(* It also models one invocation of tools/main.py (the SSH connection, the *)
(* check, kill, run, attach and upload actions, and the tmux session on    *)
(* the Raspberry Pi with the remote commands that are not waited for), and *)
(* Ds18b20TemperatureSensor.read_temperature of the logger itself.         *)
(***************************************************************************)
EXTENDS Integers, Sequences, FiniteSets, TLC

(***************************************************************************)
(* Bounds of the model.                                                    *)
(***************************************************************************)
MaxMtime == 2      \* modification times and clock readings range over 1..MaxMtime
MaxSyncs == 2      \* number of successive upload_recursive calls
MaxFaults == 1     \* injected transfer failures (permission denied, link drop)
MaxLines == 2      \* lines the tmux pane writes into one capture file

max_retries == 10  \* rpi_tmux, line 143

Mtimes == 1..MaxMtime

(***************************************************************************)
(* File names and path strings.  A string is a sequence of characters so   *)
(* that the substring / suffix tests of _is_excluded are computed.         *)
(***************************************************************************)
Names == {"a", "b", ".git"}

Chars(name) ==
    CASE name = "a"    -> <<"a">>
      [] name = "b"    -> <<"b">>
      [] name = ".git" -> <<".", "g", "i", "t">>

\* Paths relative to the synchronised directory: <<>> is the directory itself.
Paths == {<<>>, <<"a">>, <<"a", "b">>, <<"a", ".git">>}

Parent(p) == SubSeq(p, 1, Len(p) - 1)

ChildNames(tree, p) ==
    {n \in Names : Append(p, n) \in Paths /\ tree[Append(p, n)].st_mode # 0}

\* exclude_folders + exclude_files of rpi_upload_app
exclude_patterns ==
    << <<".", "v", "e", "n", "v">>,
       <<".", "g", "i", "t">>,
       <<"_", "_", "p", "y", "c", "a", "c", "h", "e", "_", "_">> >>

\* local_dir: the resolved absolute path of the project on the operator's machine
LocalRootsPlain == { <<"/", "w", "/", "p">> }
LocalRoots == LocalRootsPlain \cup { <<"/", "m", ".", "g", "i", "t", "h", "u", "b", "/", "p">> }

\* remote_dir: /home/<username>/<project_directory>
RemoteRootsPlain == { <<"/", "h", "/", "p", "i", "/", "p">> }
RemoteRoots == RemoteRootsPlain \cup { <<"/", "h", "/", "x", ".", "g", "i", "t", "/", "p">> }

RECURSIVE PathStr(_, _)
PathStr(root, p) ==
    IF p = <<>> THEN root
    ELSE PathStr(root, Parent(p)) \o <<"/">> \o Chars(p[Len(p)])

\* pattern in s
Contains(s, pattern) ==
    \E i \in 1..(Len(s) - Len(pattern) + 1) :
        SubSeq(s, i, i + Len(pattern) - 1) = pattern

\* s.endswith(pattern)
EndsWith(s, pattern) ==
    /\ Len(s) >= Len(pattern)
    /\ SubSeq(s, Len(s) - Len(pattern) + 1, Len(s)) = pattern

\* _is_excluded(path) for path = root / p, with p a non-empty relative path
_is_excluded(root, p) ==
    \E k \in 1..Len(exclude_patterns) :
        LET pattern == exclude_patterns[k]
            s       == PathStr(root, p)
        IN  \/ Contains(s, pattern)
            \/ Chars(p[Len(p)]) = pattern
            \/ EndsWith(s, pattern)

(***************************************************************************)
(* File attributes.  st_mode = 0 stands for "no such entry".  Directory    *)
(* modification times are not tracked (st_mtime = 0); a stat of a          *)
(* directory may report any time.                                          *)
(***************************************************************************)
NoEntry == [st_mode |-> 0, st_mtime |-> 0]
RegularFile(t) == [st_mode |-> 33188, st_mtime |-> t]     \* 0o100644
Directory(mode) == [st_mode |-> mode, st_mtime |-> 0]

\* 0o40755 and 0o40775 (umask 022 and umask 002)
DirModes == {16877, 16893}

S_ISDIR(mode) == (mode \div 4096) % 16 = 4
S_ISREG(mode) == (mode \div 4096) % 16 = 8

\* str(n) as a sequence of decimal digits
RECURSIVE str(_)
str(n) == IF n < 10 THEN <<n>> ELSE Append(str(n \div 10), n % 10)

\* str(attr.st_mode).startswith('16877')
startswith_16877(mode) ==
    LET s == str(mode)
        prefix == <<1, 6, 8, 7, 7>>
    IN  Len(s) >= Len(prefix) /\ SubSeq(s, 1, Len(prefix)) = prefix

\* a tree is well formed when every entry below the root lies in a directory
WellFormed(tree) ==
    \A p \in Paths \ {<<>>} :
        tree[p].st_mode # 0 => S_ISDIR(tree[Parent(p)].st_mode)

LocalEntries == {NoEntry, Directory(16877)} \cup {RegularFile(t) : t \in Mtimes}
RemoteEntries ==
    {NoEntry} \cup {Directory(m) : m \in DirModes} \cup {RegularFile(t) : t \in Mtimes}

LocalTrees ==
    {t \in [Paths -> LocalEntries] : WellFormed(t) /\ S_ISDIR(t[<<>>].st_mode)}
RemoteTrees ==
    {t \in [Paths -> RemoteEntries] :
        WellFormed(t) /\ t[<<>>] \in {NoEntry, Directory(16877)}}

VARIABLES
    local,        \* the local project tree (unchanged by the tool)
    localRoot,    \* str(local_dir)
    remote,       \* the tree under remote_dir on the Raspberry Pi
    remoteRoot,   \* str(remote_dir)
    remoteClock,  \* latest reading of the Raspberry Pi's clock (it stamps uploads)
    remote0,      \* the remote tree when the current upload_recursive began
    phase,        \* "idle", "sync", "done" (returned) or "raised"
    run,          \* number of upload_recursive calls begun so far
    todo,         \* statements of upload_recursive's body still to run
    stack,        \* call stack of the nested functions, innermost first
    log,          \* SFTP requests issued by the current call, with results
    faults,       \* transfer failures the environment may still inject
    rpi,          \* the Raspberry Pi: tmux, its session and pipe, capture file, processes
    commands,     \* remote commands issued with a bare exec_command: steps still to run
    tool,         \* tools/main.py: position, arguments and locals of the running call
    stdout,       \* what the tool has written to the operator's terminal
    issued,       \* commands issued with exec_command by the running function, in order
    sensor        \* temperature_logger.py: one read_temperature call of a DS18B20 sensor

vars == <<local, localRoot, remote, remoteRoot, remoteClock, remote0,
          phase, run, todo, stack, log, faults,
          rpi, commands, tool, stdout, issued, sensor>>

\* state of tools/main.py and of the tmux session, which upload_recursive leaves alone
mainVars == <<rpi, commands, tool, stdout, issued>>

\* what upload_recursive never changes
env == <<local, localRoot, remoteRoot, mainVars, sensor>>

\* state of upload_recursive, which the rest of tools/main.py leaves alone
uploadVars == <<local, localRoot, remote, remoteRoot, remoteClock, remote0,
                phase, run, todo, stack, log>>

(***************************************************************************)
(* Local file system queries (pathlib).                                    *)
(***************************************************************************)
exists(p) == p \in Paths /\ local[p].st_mode # 0
is_dir(p) == p \in Paths /\ S_ISDIR(local[p].st_mode)

(***************************************************************************)
(* The SFTP server's answer to each request in the current remote state.   *)
(* "ok", or the failure paramiko raises as IOError.                        *)
(***************************************************************************)
Present(p) == p \in Paths /\ remote[p].st_mode # 0
RemoteIsDir(p) == p \in Paths /\ S_ISDIR(remote[p].st_mode)
\* the parent of remote_dir (/home/<username>) always exists
ParentIsDir(p) == p = <<>> \/ RemoteIsDir(Parent(p))

sftp_listdir(p) ==
    IF RemoteIsDir(p) THEN "ok" ELSE IF Present(p) THEN "Failure" ELSE "ENOENT"

sftp_stat(p) == IF Present(p) THEN "ok" ELSE "ENOENT"

sftp_remove(p) ==
    IF ~Present(p) THEN "ENOENT" ELSE IF RemoteIsDir(p) THEN "Failure" ELSE "ok"

sftp_rmdir(p) ==
    IF ~Present(p) THEN "ENOENT"
    ELSE IF RemoteIsDir(p) /\ ChildNames(remote, p) = {} THEN "ok" ELSE "Failure"

sftp_mkdir(p) ==
    IF Present(p) THEN "EEXIST" ELSE IF ParentIsDir(p) THEN "ok" ELSE "ENOENT"

sftp_put(p) ==
    IF ~ParentIsDir(p) THEN "ENOENT" ELSE IF RemoteIsDir(p) THEN "Failure" ELSE "ok"

\* what a request may answer: the server's answer, or an injected failure
Results(natural) == {natural} \cup (IF faults > 0 THEN {"EACCES"} ELSE {})

Spend(res) == faults' = IF res = "EACCES" THEN faults - 1 ELSE faults

\* one line of the trace of the current call: the function issuing the request,
\* the request, its path and its result
Entry(op, p, res) == [fn |-> Head(stack).fn, op |-> op, path |-> p, res |-> res]

Logged(op, p, res) == log' = Append(log, Entry(op, p, res))

\* the decision of _is_excluded is traced as well, before the request that follows it
Decision(p, excluded) == Entry("_is_excluded", p, IF excluded THEN "True" ELSE "False")

(***************************************************************************)
(* Call stack.                                                             *)
(***************************************************************************)
Frame(fn, p, pc) == [fn |-> fn, path |-> p, pc |-> pc, pending |-> {}, item |-> ""]

Top == Head(stack)
Rest == Tail(stack)

Running(fn, pc) ==
    /\ phase = "sync"
    /\ stack # <<>>
    /\ Top.fn = fn
    /\ Top.pc = pc

\* An IOError raised in _remove_remote_dir leaves every _remove_remote_dir
\* frame and is caught by the inner try of _delete_extra_remote_files.
RECURSIVE Unwind(_)
Unwind(s) ==
    IF s = <<>> \/ Head(s).fn = "_delete_extra_remote_files" THEN s
    ELSE Unwind(Tail(s))

(***************************************************************************)
(* tools/main.py: the Raspberry Pi as the tool sees it, and the tool's     *)
(* own state.  Process ids are strings, as pgrep prints them.              *)
(***************************************************************************)
TMUX_LOG_PATH == "/tmp/rpi_ds18b20_temperature_logger.tmux-log"

\* ids the logger processes on the Raspberry Pi may have, in pgrep's order
PidOrder == <<"111", "222">>
Pids == {PidOrder[i] : i \in DOMAIN PidOrder}

\* files that have been created at TMUX_LOG_PATH; a removed file lives on
\* while the pipe's cat or the tool's reader holds it open
Inodes == 1..3

NoError == [type |-> "none", arg |-> "none"]

NoEntryState == [session |-> FALSE, pipe |-> 0, capture |-> 0, quiet |-> TRUE]

\* the tool when it is not running
ToolIdle ==
    [pc |-> "idle", args |-> {}, body |-> <<>>, fn |-> "none",
     restart_application |-> FALSE, valid_proc_ids |-> <<>>, next |-> 1,
     tmux_command |-> "none", probes |-> 0, probe |-> "none", handle |-> 0, pos |-> 0,
     unflushed |-> <<>>, err |-> NoError, success |-> FALSE, ssh |-> "closed",
     connects |-> 0, entry |-> NoEntryState, overlap |-> "none"]

\* a Raspberry Pi without tmux, session, capture file or logger process
RpiBare ==
    [installed |-> FALSE, session |-> FALSE, pipe |-> 0, capture |-> 0,
     lines |-> [f \in Inodes |-> 0], procs |-> [p \in Pids |-> "none"]]

\* the states the Raspberry Pi may be in when the operator starts the tool:
\* a session needs tmux, a pipe needs a session, the pipe's file may have
\* been removed from /tmp since
RpiStates ==
    {r \in [installed : BOOLEAN, session : BOOLEAN, pipe : {0, 1}, capture : {0, 1},
            lines : [Inodes -> 0..MaxLines], procs : [Pids -> {"none", "running"}]] :
        /\ r.session => r.installed
        /\ r.pipe # 0 => r.session
        /\ \A f \in Inodes : r.lines[f] # 0 => f \in {r.pipe, r.capture}}

(***************************************************************************)
(* rpi_ds18b20_temperature_logger/temperature_logger.py: no read of a      *)
(* sensor is under way.                                                    *)
(***************************************************************************)
\* None where a list of lines is expected, and a list of lines
NoLines == [none |-> TRUE, v |-> <<>>]
Lines(list) == [none |-> FALSE, v |-> list]

\* None where a temperature is expected, and a temperature in tenths of a
\* degree Celsius
NoTemperature == [none |-> TRUE, v |-> 0]
Temperature(tenths) == [none |-> FALSE, v |-> tenths]

SensorIdle ==
    [pc |-> "idle", retries |-> 0, lines |-> NoLines, status |-> "", history |-> <<>>,
     result |-> [temperature |-> NoTemperature, status |-> ""]]

(***************************************************************************)
(* Initial states.                                                         *)
(***************************************************************************)
InitAny ==
    /\ local \in LocalTrees
    /\ remote \in RemoteTrees
    /\ remoteClock = 1
    /\ remote0 = remote
    /\ phase = "idle"
    /\ run = 0
    /\ todo = <<>>
    /\ stack = <<>>
    /\ log = <<>>
    /\ rpi = RpiBare
    /\ commands = <<>>
    /\ tool = ToolIdle
    /\ stdout = <<>>
    /\ issued = <<>>
    /\ sensor = SensorIdle

\* plain directory names, reliable transfer layer
Init ==
    /\ InitAny
    /\ localRoot \in LocalRootsPlain
    /\ remoteRoot \in RemoteRootsPlain
    /\ faults = 0

(***************************************************************************)
(* upload_recursive: body (lines 91-93).                                   *)
(***************************************************************************)
\* the two calls in the opposite order
upload_recursive_body_swapped == <<"_upload_dir", "_delete_extra_remote_files">>

upload_recursive_body == <<"_delete_extra_remote_files", "_upload_dir">>

upload_recursive ==
    /\ phase \in {"idle", "done"}
    /\ run < MaxSyncs
    /\ phase' = "sync"
    /\ run' = run + 1
    /\ todo' = upload_recursive_body
    /\ stack' = <<>>
    /\ log' = <<>>
    /\ remote0' = remote
    /\ UNCHANGED <<env, remote, remoteClock, faults>>

\* the next call of the body: _delete_extra_remote_files(local_dir, remote_dir)
\* or _upload_dir(local_dir, remote_dir)
call_pass ==
    /\ phase = "sync"
    /\ stack = <<>>
    /\ todo # <<>>
    /\ stack' = << Frame(Head(todo), <<>>,
                         IF Head(todo) = "_upload_dir" THEN "mkdir" ELSE "listdir") >>
    /\ todo' = Tail(todo)
    /\ UNCHANGED <<env, remote, remoteClock, remote0, phase, run, log, faults>>

sftp_close ==
    /\ phase = "sync"
    /\ stack = <<>>
    /\ todo = <<>>
    /\ phase' = "done"
    /\ UNCHANGED <<env, remote, remoteClock, remote0, run, todo, stack, log, faults>>

(***************************************************************************)
(* _delete_extra_remote_files (lines 27-49).                               *)
(***************************************************************************)
\* for item in sftp.listdir(str(remote_path)); any IOError ends the call
delete_extra_remote_files_listdir ==
    /\ Running("_delete_extra_remote_files", "listdir")
    /\ \E res \in Results(sftp_listdir(Top.path)) :
        /\ Spend(res)
        /\ Logged("listdir", Top.path, res)
        /\ stack' = IF res = "ok"
                    THEN << [Top EXCEPT !.pc = "loop",
                                        !.pending = ChildNames(remote, Top.path)] >> \o Rest
                    ELSE Rest
    /\ UNCHANGED <<env, remote, remoteClock, remote0, phase, run, todo>>

\* one iteration of the loop, up to the sftp.stat and the branch it selects
delete_extra_remote_files_item ==
    /\ Running("_delete_extra_remote_files", "loop")
    /\ \E item \in Top.pending :
        LET remote_item == Append(Top.path, item)
            local_item  == Append(Top.path, item)
            continue    == [Top EXCEPT !.pending = @ \ {item}]
        IN  IF _is_excluded(remoteRoot, remote_item)
            THEN /\ stack' = <<continue>> \o Rest
                 /\ log' = Append(log, Decision(remote_item, TRUE))
                 /\ UNCHANGED faults
            ELSE \E res \in Results(sftp_stat(remote_item)) :
                    /\ Spend(res)
                    /\ log' = log \o << Decision(remote_item, FALSE),
                                        Entry("stat", remote_item, res) >>
                    /\ stack' =
                         IF res # "ok" THEN <<continue>> \o Rest
                         ELSE IF startswith_16877(remote[remote_item].st_mode)
                         THEN IF ~is_dir(local_item)
                              THEN << Frame("_remove_remote_dir", remote_item, "listdir"),
                                      continue >> \o Rest
                              ELSE << Frame("_delete_extra_remote_files", remote_item, "listdir"),
                                      continue >> \o Rest
                         ELSE IF ~exists(local_item)
                              THEN << [continue EXCEPT !.pc = "remove", !.item = item] >> \o Rest
                              ELSE <<continue>> \o Rest
    /\ UNCHANGED <<env, remote, remoteClock, remote0, phase, run, todo>>

\* sftp.remove(str(remote_item)); an IOError is passed over
delete_extra_remote_files_remove ==
    /\ Running("_delete_extra_remote_files", "remove")
    /\ LET remote_item == Append(Top.path, Top.item)
       IN  \E res \in Results(sftp_remove(remote_item)) :
            /\ Spend(res)
            /\ Logged("remove", remote_item, res)
            /\ remote' = IF res = "ok" THEN [remote EXCEPT ![remote_item] = NoEntry]
                         ELSE remote
            /\ stack' = << [Top EXCEPT !.pc = "loop", !.item = ""] >> \o Rest
    /\ UNCHANGED <<env, remoteClock, remote0, phase, run, todo>>

delete_extra_remote_files_return ==
    /\ Running("_delete_extra_remote_files", "loop")
    /\ Top.pending = {}
    /\ stack' = Rest
    /\ UNCHANGED <<env, remote, remoteClock, remote0, phase, run, todo, log, faults>>

(***************************************************************************)
(* _remove_remote_dir (lines 51-59).  It has no handler of its own.        *)
(***************************************************************************)
remove_remote_dir_listdir ==
    /\ Running("_remove_remote_dir", "listdir")
    /\ \E res \in Results(sftp_listdir(Top.path)) :
        /\ Spend(res)
        /\ Logged("listdir", Top.path, res)
        /\ stack' = IF res = "ok"
                    THEN << [Top EXCEPT !.pc = "loop",
                                        !.pending = ChildNames(remote, Top.path)] >> \o Rest
                    ELSE Unwind(Rest)
    /\ UNCHANGED <<env, remote, remoteClock, remote0, phase, run, todo>>

remove_remote_dir_item ==
    /\ Running("_remove_remote_dir", "loop")
    /\ \E item \in Top.pending :
        LET remote_item == Append(Top.path, item)
            continue    == [Top EXCEPT !.pending = @ \ {item}]
        IN  \E res \in Results(sftp_stat(remote_item)) :
                /\ Spend(res)
                /\ Logged("stat", remote_item, res)
                /\ stack' =
                     IF res # "ok" THEN Unwind(Rest)
                     ELSE IF startswith_16877(remote[remote_item].st_mode)
                     THEN << Frame("_remove_remote_dir", remote_item, "listdir"),
                             continue >> \o Rest
                     ELSE << [continue EXCEPT !.pc = "remove", !.item = item] >> \o Rest
    /\ UNCHANGED <<env, remote, remoteClock, remote0, phase, run, todo>>

remove_remote_dir_remove ==
    /\ Running("_remove_remote_dir", "remove")
    /\ LET remote_item == Append(Top.path, Top.item)
       IN  \E res \in Results(sftp_remove(remote_item)) :
            /\ Spend(res)
            /\ Logged("remove", remote_item, res)
            /\ remote' = IF res = "ok" THEN [remote EXCEPT ![remote_item] = NoEntry]
                         ELSE remote
            /\ stack' = IF res = "ok"
                        THEN << [Top EXCEPT !.pc = "loop", !.item = ""] >> \o Rest
                        ELSE Unwind(Rest)
    /\ UNCHANGED <<env, remoteClock, remote0, phase, run, todo>>

\* sftp.rmdir(str(path)) after the loop
remove_remote_dir_rmdir ==
    /\ Running("_remove_remote_dir", "loop")
    /\ Top.pending = {}
    /\ \E res \in Results(sftp_rmdir(Top.path)) :
        /\ Spend(res)
        /\ Logged("rmdir", Top.path, res)
        /\ remote' = IF res = "ok" THEN [remote EXCEPT ![Top.path] = NoEntry]
                     ELSE remote
        /\ stack' = IF res = "ok" THEN Rest ELSE Unwind(Rest)
    /\ UNCHANGED <<env, remoteClock, remote0, phase, run, todo>>

(***************************************************************************)
(* _upload_dir (lines 61-76).                                              *)
(***************************************************************************)
\* an IOError of the upload pass that no handler catches leaves upload_recursive
Raise ==
    /\ phase' = "raised"
    /\ stack' = <<>>
    /\ todo' = <<>>

\* sftp.mkdir(str(remote_path)), IOError passed over; then local_path.iterdir().
\* The new directory gets mode 0o777 masked by the remote umask.
upload_dir_mkdir ==
    /\ Running("_upload_dir", "mkdir")
    /\ \E res \in Results(sftp_mkdir(Top.path)) :
        /\ Spend(res)
        /\ Logged("mkdir", Top.path, res)
        /\ IF res = "ok"
           THEN \E mode \in DirModes : remote' = [remote EXCEPT ![Top.path] = Directory(mode)]
           ELSE remote' = remote
    /\ stack' = << [Top EXCEPT !.pc = "loop",
                               !.pending = ChildNames(local, Top.path)] >> \o Rest
    /\ UNCHANGED <<env, remoteClock, remote0, phase, run, todo>>

\* one iteration of the loop over local_path.iterdir()
upload_dir_item ==
    /\ Running("_upload_dir", "loop")
    /\ \E item \in Top.pending :
        LET local_item  == Append(Top.path, item)
            remote_item == Append(Top.path, item)
            continue    == [Top EXCEPT !.pending = @ \ {item}]
        IN  /\ log' = Append(log, Decision(remote_item, _is_excluded(localRoot, local_item)))
            /\ stack' =
                 IF _is_excluded(localRoot, local_item) THEN <<continue>> \o Rest
                 ELSE IF is_dir(local_item)
                 THEN << Frame("_upload_dir", remote_item, "mkdir"), continue >> \o Rest
                 ELSE << Frame("_upload_file_if_newer", remote_item, "stat"), continue >> \o Rest
    /\ UNCHANGED <<env, remote, remoteClock, remote0, phase, run, todo, faults>>

upload_dir_return ==
    /\ Running("_upload_dir", "loop")
    /\ Top.pending = {}
    /\ stack' = Rest
    /\ UNCHANGED <<env, remote, remoteClock, remote0, phase, run, todo, log, faults>>

(***************************************************************************)
(* _upload_file_if_newer (lines 78-89).                                    *)
(***************************************************************************)
\* st_mtime as sftp.stat reports it
StatMtimes(p) ==
    IF S_ISDIR(remote[p].st_mode) THEN Mtimes ELSE {remote[p].st_mtime}

\* sftp.put writes the file through the server, which stamps it with its own
\* clock: times are not carried over from the local file.
Put(p, res) ==
    IF res = "ok"
    THEN \E now \in remoteClock..MaxMtime :
            /\ remoteClock' = now
            /\ remote' = [remote EXCEPT ![p] = RegularFile(now)]
    ELSE UNCHANGED <<remote, remoteClock>>

\* remote_attr = sftp.stat(...); if local_mtime > remote_mtime
upload_file_if_newer_stat ==
    /\ Running("_upload_file_if_newer", "stat")
    /\ LET local_mtime == local[Top.path].st_mtime
       IN  \E res \in Results(sftp_stat(Top.path)) :
            /\ Spend(res)
            /\ Logged("stat", Top.path, res)
            /\ IF res # "ok"
               THEN stack' = << [Top EXCEPT !.pc = "except"] >> \o Rest
               ELSE \E remote_mtime \in StatMtimes(Top.path) :
                      stack' = IF local_mtime > remote_mtime
                               THEN << [Top EXCEPT !.pc = "put"] >> \o Rest
                               ELSE Rest
    /\ UNCHANGED <<env, remote, remoteClock, remote0, phase, run, todo>>

\* line 85: the put inside the try block
upload_file_if_newer_put ==
    /\ Running("_upload_file_if_newer", "put")
    /\ \E res \in Results(sftp_put(Top.path)) :
        /\ Spend(res)
        /\ Logged("put", Top.path, res)
        /\ Put(Top.path, res)
        /\ stack' = IF res = "ok" THEN Rest
                    ELSE << [Top EXCEPT !.pc = "except"] >> \o Rest
    /\ UNCHANGED <<env, remote0, phase, run, todo>>

\* line 89: the put of the except IOError block
upload_file_if_newer_except ==
    /\ Running("_upload_file_if_newer", "except")
    /\ \E res \in Results(sftp_put(Top.path)) :
        /\ Spend(res)
        /\ Logged("put", Top.path, res)
        /\ Put(Top.path, res)
        /\ IF res = "ok"
           THEN stack' = Rest /\ UNCHANGED <<phase, todo>>
           ELSE Raise
    /\ UNCHANGED <<env, remote0, run>>

Next ==
    \/ upload_recursive
    \/ call_pass
    \/ sftp_close
    \/ delete_extra_remote_files_listdir
    \/ delete_extra_remote_files_item
    \/ delete_extra_remote_files_remove
    \/ delete_extra_remote_files_return
    \/ remove_remote_dir_listdir
    \/ remove_remote_dir_item
    \/ remove_remote_dir_remove
    \/ remove_remote_dir_rmdir
    \/ upload_dir_mkdir
    \/ upload_dir_item
    \/ upload_dir_return
    \/ upload_file_if_newer_stat
    \/ upload_file_if_newer_put
    \/ upload_file_if_newer_except

Spec == Init /\ [][Next]_vars

\* any place of the project directory on either machine
InitRoots ==
    /\ InitAny
    /\ localRoot \in LocalRoots
    /\ remoteRoot \in RemoteRoots
    /\ faults = 0

SpecRoots == InitRoots /\ [][Next]_vars

\* a transfer layer that may fail for reasons other than a missing entry
InitFault ==
    /\ InitAny
    /\ localRoot \in LocalRootsPlain
    /\ remoteRoot \in RemoteRootsPlain
    /\ faults \in 0..MaxFaults

SpecFault == InitFault /\ [][Next]_vars
(***************************************************************************)
(* tools/main.py.  One invocation of the tool parses its flags, opens the  *)
(* SSH connection and runs the requested functions in the fixed order of   *)
(* main().  A remote command whose exit status or output the code waits    *)
(* for (recv_exit_status, stdout.read) runs to its end inside the action   *)
(* that issues it; a command issued with a bare exec_command is put in     *)
(* flight and its steps run on the Raspberry Pi whenever they get to,      *)
(* interleaved with the tool and with each other.                          *)
(***************************************************************************)
Flags == {"rpi_check_logger", "rpi_kill_logger", "rpi_run_logger", "rpi_tmux",
          "rpi_copy_code"}

\* the flag combinations the operator may type: one action at a time
ArgSets == {{f} : f \in Flags}

Statement(fn, arg) == [fn |-> fn, arg |-> arg]

\* the call of line 251 asking for a restart, as those of lines 249 and 256 do
rpi_tmux_flag_restart == Statement("rpi_tmux", TRUE)

\* main(), line 251: rpi_tmux(ssh_client, ssh_config)
rpi_tmux_flag == Statement("rpi_tmux", FALSE)

\* main(), lines 239-256
main_body(args) ==
       (IF "rpi_check_logger" \in args
        THEN << Statement("rpi_check_logger", TRUE), Statement("success", TRUE) >>
        ELSE <<>>)
    \o (IF "rpi_kill_logger" \in args
        THEN << Statement("rpi_check_logger", FALSE), Statement("rpi_kill_logger", FALSE),
                Statement("success", TRUE) >>
        ELSE <<>>)
    \o (IF "rpi_run_logger" \in args
        THEN << Statement("rpi_check_logger", FALSE), Statement("rpi_kill_logger", FALSE),
                Statement("rpi_tmux", TRUE) >>
        ELSE <<>>)
    \o (IF "rpi_tmux" \in args THEN << rpi_tmux_flag >> ELSE <<>>)
    \o (IF "rpi_copy_code" \in args
        THEN << Statement("rpi_upload_app", FALSE),
                Statement("rpi_check_logger", FALSE), Statement("rpi_kill_logger", FALSE),
                Statement("rpi_tmux", TRUE) >>
        ELSE <<>>)

\* the un-awaited shell commands of rpi_tmux, as the steps the remote shell runs
RestartSteps == <<"kill-session", "rm", "new-session">>     \* lines 116-121
AttachSteps == <<"rm", "pipe-pane">>                        \* lines 134-137
SendKeysSteps == <<"send-keys">>                            \* line 164

StepsOf(cmd) ==
    CASE cmd = "restart"   -> RestartSteps
      [] cmd = "attach"    -> AttachSteps
      [] cmd = "send-keys" -> SendKeysSteps

\* the commands still running on the Raspberry Pi
InFlight == {i \in DOMAIN commands : commands[i].steps # <<>>}

\* one remote call as the tool issued it
Issued(cmd, awaited, res) ==
    [fn |-> tool.fn, cmd |-> cmd, awaited |-> awaited, res |-> res]

\* the tool remembers nothing of this; the model does: the first remote call
\* issued while an earlier command was still running
Overlap(t, cmd) ==
    IF t.overlap = "none" /\ InFlight # {} THEN [t EXCEPT !.overlap = cmd] ELSE t

\* ssh_client.exec_command(cmd) with nothing read from its channel
exec_command(cmd) == [cmd |-> cmd, steps |-> StepsOf(cmd)]

\* the error is noted and the function goes on
Raising_and_going_on(t, type, arg) == [t EXCEPT !.err = [type |-> type, arg |-> arg]]

\* raise type(arg): the exception leaves the function and main
Raising(t, type, arg) == [t EXCEPT !.pc = "raised", !.err = [type |-> type, arg |-> arg]]

Returning(t) == [t EXCEPT !.pc = "main", !.handle = 0]

\* the smallest file not referenced any more
Fresh == CHOOSE f \in Inodes :
            /\ f \notin {rpi.capture, rpi.pipe, tool.handle}
            /\ \A g \in Inodes : g \notin {rpi.capture, rpi.pipe, tool.handle} => f <= g

\* a file nobody holds any more is gone
Collect(r, handle) ==
    [r EXCEPT !.lines = [f \in Inodes |->
                            IF f \in {r.capture, r.pipe, handle} THEN r.lines[f] ELSE 0]]

\* tmux kill-session -t tlog: the pane's pipe is closed with the session
kill_session(r) == [r EXCEPT !.session = FALSE, !.pipe = 0]

\* rm /tmp/...tmux-log
rm(r) == [r EXCEPT !.capture = 0]

\* tmux pipe-pane -t tlog:0.0 -o "cat >> /tmp/...tmux-log": an open pipe is
\* closed; with -o a new one is opened only if none was open
pipe_pane(r) ==
    IF ~r.session THEN r
    ELSE IF r.pipe # 0 THEN [r EXCEPT !.pipe = 0]
    ELSE IF r.capture # 0 THEN [r EXCEPT !.pipe = r.capture]
    ELSE [r EXCEPT !.pipe = Fresh, !.capture = Fresh, !.lines[Fresh] = 0]

\* tmux new-session -d -s tlog \; pipe-pane ...: tmux stops the sequence when
\* the session name is taken
new_session(r) ==
    IF r.session THEN r
    ELSE pipe_pane([r EXCEPT !.session = TRUE, !.pipe = 0])

\* tmux send-keys -t tlog "cd ... && uv run main.py" C-m: the logger starts
send_keys(r) ==
    IF ~r.session \/ \A p \in Pids : r.procs[p] # "none" THEN r
    ELSE LET p == CHOOSE q \in Pids :
                    /\ r.procs[q] = "none"
                    /\ \A i, j \in DOMAIN PidOrder :
                          (PidOrder[i] = q /\ r.procs[PidOrder[j]] = "none") => i <= j
         IN [r EXCEPT !.procs[p] = "running"]

StepEffect(step, r) ==
    CASE step = "kill-session" -> kill_session(r)
      [] step = "rm"           -> rm(r)
      [] step = "new-session"  -> new_session(r)
      [] step = "pipe-pane"    -> pipe_pane(r)
      [] step = "send-keys"    -> send_keys(r)

\* the remote shell of one command in flight runs its next step
RemoteStep(step) ==
    \E i \in InFlight :
        /\ Head(commands[i].steps) = step
        /\ rpi' = Collect(StepEffect(step, rpi), tool.handle)
        /\ commands' = [commands EXCEPT ![i].steps = Tail(@)]
        /\ UNCHANGED <<tool, stdout, issued, faults, uploadVars, sensor>>

tmux_kill_session == RemoteStep("kill-session")
rm_tmux_log == RemoteStep("rm")
tmux_new_session == RemoteStep("new-session")
tmux_pipe_pane == RemoteStep("pipe-pane")
tmux_send_keys == RemoteStep("send-keys")

\* the pane prints (a prompt, the logger's output) and the pipe's cat appends
\* it; the tool can tell only while it has the file open
pane_output ==
    /\ tool.handle # 0
    /\ rpi.session
    /\ rpi.pipe # 0
    /\ rpi.lines[rpi.pipe] < MaxLines
    /\ rpi' = [rpi EXCEPT !.lines[rpi.pipe] = @ + 1]
    /\ UNCHANGED <<commands, tool, stdout, issued, faults, uploadVars, sensor>>

\* a logger process ends: some time after a kill has signalled it, or on its
\* own; the tool can tell only at its next pgrep or kill
process_exits ==
    /\ tool.pc \in {"rpi_check_logger", "rpi_kill_logger"}
    /\ \E p \in Pids :
        /\ rpi.procs[p] # "none"
        /\ rpi' = [rpi EXCEPT !.procs[p] = "none"]
    /\ UNCHANGED <<commands, tool, stdout, issued, faults, uploadVars, sensor>>

(***************************************************************************)
(* main (lines 206-259) and SshClient (lines 29-49).                       *)
(***************************************************************************)
\* lines 207-237: the flags are parsed and SshClient() is constructed, its
\* _client still None (line 33)
main(args) ==
    [ToolIdle EXCEPT !.pc = "with", !.args = args, !.body = main_body(args), !.ssh = "None"]

\* SshClient.__enter__ (lines 35-44): connect opens the connection, or raises
\* when the Raspberry Pi cannot be reached; __exit__ is not called then and
\* the process ends
SshClient_enter ==
    /\ tool.pc = "with"
    /\ \E res \in Results("ok") :
        /\ Spend(res)
        /\ tool' = IF res = "ok"
                   THEN [tool EXCEPT !.pc = "main", !.ssh = "open", !.connects = @ + 1]
                   ELSE [ToolIdle EXCEPT !.args = tool.args,
                                         !.ssh = "None",
                                         !.err = [type |-> "SSHException", arg |-> res]]
    /\ UNCHANGED <<rpi, commands, stdout, issued, uploadVars, sensor>>

\* the test of line 47 turned round
SshClient__exit___inverted(client) == IF client = "None" THEN "closed" ELSE client

\* SshClient.__exit__, lines 47-48: if self._client: self._client.close()
SshClient__exit__(client) == IF client # "None" THEN "closed" ELSE client

\* the next statement of the with block
main_statement ==
    /\ tool.pc = "main"
    /\ tool.body # <<>>
    /\ LET st == Head(tool.body)
           t == [tool EXCEPT !.body = Tail(@)]
       IN tool' =
            IF st.fn = "success" THEN [t EXCEPT !.success = TRUE]
            ELSE [t EXCEPT !.pc = IF st.fn = "rpi_tmux" THEN "_install_tmux" ELSE st.fn,
                           !.fn = st.fn,
                           !.restart_application = st.arg,
                           !.next = 1,
                           !.tmux_command = "none",
                           !.probes = 0,
                           !.probe = "none",
                           !.pos = 0,
                           !.entry = [session |-> rpi.session, pipe |-> rpi.pipe,
                                      capture |-> rpi.capture, quiet |-> InFlight = {}]]
    /\ issued' = IF Head(tool.body).fn = "success" THEN issued ELSE <<>>
    /\ UNCHANGED <<rpi, commands, stdout, faults, uploadVars, sensor>>

\* SshClient.__exit__ (lines 46-49) and, after a normal end, lines 258-259;
\* the process ends and its variables with it
SshClient_exit ==
    /\ \/ tool.pc = "main" /\ tool.body = <<>>
       \/ tool.pc = "raised"
    /\ tool' = [ToolIdle EXCEPT !.args = tool.args, !.err = tool.err,
                                 !.success = tool.success, !.overlap = tool.overlap,
                                 !.ssh = SshClient__exit__(tool.ssh),
                                 !.connects = tool.connects]
    /\ stdout' = IF tool.pc = "main" /\ tool.success
                 THEN Append(stdout, [text |-> "SUCCESS!", line |-> 0])
                 ELSE stdout
    /\ rpi' = Collect(rpi, 0)
    /\ UNCHANGED <<commands, issued, faults, uploadVars, sensor>>

\* Ctrl-C while the tool sleeps outside the try block of rpi_tmux (lines 99,
\* 140, 153)
KeyboardInterrupt ==
    /\ tool.pc \in {"rpi_kill_logger", "tmux_command", "probe"}
    /\ tool' = Raising(tool, "KeyboardInterrupt", "none")
    /\ stdout' = Append(stdout, [text |-> "^C", line |-> 0])
    /\ UNCHANGED <<rpi, commands, issued, faults, uploadVars, sensor>>

(***************************************************************************)
(* rpi_check_logger (lines 71-86) and rpi_kill_logger (lines 89-100).      *)
(***************************************************************************)
\* pgrep -f prints the ids of the logger processes, one per line
pgrep(r) == SelectSeq(PidOrder, LAMBDA p : r.procs[p] # "none")

rpi_check_logger ==
    /\ tool.pc = "rpi_check_logger"
    /\ tool' = [Overlap(tool, "pgrep") EXCEPT !.pc = "main", !.valid_proc_ids = pgrep(rpi)]
    /\ issued' = Append(issued, Issued("pgrep", TRUE, pgrep(rpi)))
    /\ UNCHANGED <<rpi, commands, stdout, faults, uploadVars, sensor>>

\* the exit status of kill: 1 when there is no such process
kill(r, pid) == IF r.procs[pid] = "none" THEN 1 ELSE 0

\* the condition of line 96 turned round
kill_failed_on_success(exit_status) == exit_status = 0

\* line 96
kill_failed(exit_status) == exit_status # 0

\* one iteration of the loop over valid_proc_ids
rpi_kill_logger_kill ==
    /\ tool.pc = "rpi_kill_logger"
    /\ tool.next <= Len(tool.valid_proc_ids)
    /\ LET pid == tool.valid_proc_ids[tool.next]
       IN \E exit_status \in {kill(rpi, pid)} :
            /\ issued' = Append(issued, Issued("kill", TRUE, [pid |-> pid, exit_status |-> exit_status]))
            /\ rpi' = rpi
            /\ tool' = IF kill_failed(exit_status)
                       THEN Raising(Overlap(tool, "kill"), "FailedToKillRpiProcessError", pid)
                       ELSE [Overlap(tool, "kill") EXCEPT !.next = @ + 1]
    /\ UNCHANGED <<commands, stdout, faults, uploadVars, sensor>>

\* after the loop: the settle sleep and the message, or nothing for an empty list
rpi_kill_logger_return ==
    /\ tool.pc = "rpi_kill_logger"
    /\ tool.next > Len(tool.valid_proc_ids)
    /\ tool' = Returning(tool)
    /\ UNCHANGED <<rpi, commands, stdout, issued, faults, uploadVars, sensor>>

(***************************************************************************)
(* rpi_upload_app (lines 199-203): upload_recursive, modelled above, ends  *)
(* by returning or by raising the IOError of a put.                        *)
(***************************************************************************)
rpi_upload_app ==
    /\ tool.pc = "rpi_upload_app"
    /\ \E end \in {"done", "raised"} :
        tool' = IF end = "done" THEN Returning(Overlap(tool, "sftp"))
                ELSE Raising(Overlap(tool, "sftp"), "IOError", "put")
    /\ UNCHANGED <<rpi, commands, stdout, issued, faults, uploadVars, sensor>>

(***************************************************************************)
(* rpi_tmux (lines 103-175) and _install_tmux (lines 178-196).             *)
(***************************************************************************)
\* which tmux; sudo apt install tmux -y when it is missing
install_tmux ==
    /\ tool.pc = "_install_tmux"
    /\ IF rpi.installed
       THEN /\ issued' = Append(issued, Issued("which tmux", TRUE, 0))
            /\ tool' = [Overlap(tool, "which tmux") EXCEPT !.pc = "rpi_tmux"]
            /\ rpi' = rpi
       ELSE \E exit_code \in {0, 100} :
            /\ issued' = issued \o << Issued("which tmux", TRUE, 1),
                                      Issued("apt install", TRUE, exit_code) >>
            /\ rpi' = [rpi EXCEPT !.installed = (exit_code = 0)]
            /\ tool' = IF exit_code # 0
                       THEN Raising(Overlap(tool, "which tmux"), "FailedToInstallRpiTmux", "none")
                       ELSE [Overlap(tool, "which tmux") EXCEPT !.pc = "rpi_tmux"]
    /\ UNCHANGED <<commands, stdout, faults, uploadVars, sensor>>

\* lines 115-122: the restart command is issued and not waited for
rpi_tmux_restart ==
    /\ tool.pc = "rpi_tmux"
    /\ tool.restart_application
    /\ commands' = Append(commands, exec_command("restart"))
    /\ issued' = Append(issued, Issued("restart", FALSE, "none"))
    /\ tool' = [Overlap(tool, "restart") EXCEPT !.pc = "tmux_command",
                                                 !.tmux_command = "restart"]
    /\ UNCHANGED <<rpi, stdout, faults, uploadVars, sensor>>

\* lines 124-130: tmux has-session -t tlog
rpi_tmux_has_session ==
    /\ tool.pc = "rpi_tmux"
    /\ ~tool.restart_application
    /\ LET exit_code == IF rpi.session THEN 0 ELSE 1
       IN /\ issued' = Append(issued, Issued("has-session", TRUE, exit_code))
          /\ tool' = IF exit_code # 0
                     THEN Raising(Overlap(tool, "has-session"), "FailedToRunRpiTmux", "none")
                     ELSE [Overlap(tool, "has-session") EXCEPT !.pc = "check_pipe"]
    /\ UNCHANGED <<rpi, commands, stdout, faults, uploadVars, sensor>>

\* what tmux display-message -p -t tlog:0.0 "#{pane_pipe}" prints: nothing
\* (the error goes to stderr) when the pane cannot be found
display_message(r) ==
    IF ~r.session THEN <<>>
    ELSE IF r.pipe # 0 THEN <<"1", "\n">> ELSE <<"0", "\n">>

\* the test of line 133 left out: the pipe is attached in every case
pipe_missing_always(output) == TRUE

\* line 133: stdout.read().decode()[0] != '1', for an output that has a [0]
pipe_missing(output) == output[1] # "1"

\* lines 131-137
rpi_tmux_check_pipe ==
    /\ tool.pc = "check_pipe"
    /\ \E output \in {display_message(rpi)} \cup (IF faults > 0 THEN {<<>>} ELSE {}) :
        /\ faults' = IF output # display_message(rpi) THEN faults - 1 ELSE faults
        /\ issued' = Append(issued, Issued("display-message", TRUE, output))
        /\ tool' = IF output = <<>>
                   THEN Raising(Overlap(tool, "display-message"), "IndexError", "none")
                   ELSE [Overlap(tool, "display-message") EXCEPT
                                     !.pc = "tmux_command",
                                     !.tmux_command =
                                         IF pipe_missing(output) THEN "attach" ELSE "none"]
    /\ UNCHANGED <<rpi, commands, stdout, uploadVars, sensor>>

\* lines 138-140: the command is issued (on restart: once more), then sleep(1)
rpi_tmux_command ==
    /\ tool.pc = "tmux_command"
    /\ IF tool.tmux_command # "none"
       THEN /\ commands' = Append(commands, exec_command(tool.tmux_command))
            /\ issued' = Append(issued, Issued(tool.tmux_command, FALSE, "none"))
            /\ tool' = [Overlap(tool, tool.tmux_command) EXCEPT !.pc = "probe"]
       ELSE /\ UNCHANGED <<commands, issued>>
            /\ tool' = [tool EXCEPT !.pc = "probe"]
    /\ UNCHANGED <<rpi, stdout, faults, uploadVars, sensor>>

\* sftp.stat(TMUX_LOG_PATH)
stat_tmux_log(r) == IF r.capture # 0 THEN "ok" ELSE "ENOENT"

\* any IOError taken for "file not found"
not_found_any(res) == res # "ok"

\* line 152: e.errno == 2
not_found(res) == res = "ENOENT"

\* one iteration of the loop of lines 145-155: open_sftp, stat
rpi_tmux_probe ==
    /\ tool.pc = "probe"
    /\ tool.probes < max_retries
    /\ \E res \in Results(stat_tmux_log(rpi)) :
        /\ Spend(res)
        /\ LET t == [Overlap(tool, "stat") EXCEPT !.probes = @ + 1, !.probe = res]
           IN tool' = IF res = "ok" THEN [t EXCEPT !.pc = "open"]
                      ELSE IF not_found(res) THEN t
                      ELSE Raising(t, "IOError", res)
    /\ UNCHANGED <<rpi, commands, stdout, issued, uploadVars, sensor>>

\* lines 156-157: the else of the for loop
rpi_tmux_not_found ==
    /\ tool.pc = "probe"
    /\ tool.probes >= max_retries
    /\ tool' = Raising(tool, "FileNotFoundError", TMUX_LOG_PATH)
    /\ UNCHANGED <<rpi, commands, stdout, issued, faults, uploadVars, sensor>>

\* line 158: sftp_client.open(TMUX_LOG_PATH, 'r', bufsize=4096)
rpi_tmux_open ==
    /\ tool.pc = "open"
    /\ LET res == stat_tmux_log(rpi)
       IN tool' = IF res = "ok"
                  THEN [Overlap(tool, "open") EXCEPT !.pc = "start", !.handle = rpi.capture,
                                                     !.pos = 0]
                  ELSE Raising(Overlap(tool, "open"), "IOError", res)
    /\ UNCHANGED <<rpi, commands, stdout, issued, faults, uploadVars, sensor>>

\* tmux_session_msg, lines 106-110
tmux_session_msg == [text |-> "tmux_session_msg", line |-> 0]

\* lines 161-166: send-keys when restarting, issued and not waited for; then
\* the try block is entered and the message printed.  The variables of the
\* polling loop are not read again.
rpi_tmux_start ==
    /\ tool.pc = "start"
    /\ LET t == [tool EXCEPT !.pc = "tail", !.probes = 0, !.probe = "none"]
       IN IF tool.restart_application
          THEN /\ commands' = Append(commands, exec_command("send-keys"))
               /\ issued' = Append(issued, Issued("send-keys", FALSE, "none"))
               /\ tool' = Overlap(t, "send-keys")
          ELSE /\ UNCHANGED <<commands, issued>>
               /\ tool' = t
    /\ stdout' = Append(stdout, tmux_session_msg)
    /\ UNCHANGED <<rpi, faults, uploadVars, sensor>>

\* remote_tmux_log.readline(): the next line of the open file, or '' at its end
readline(r, handle, pos) == IF pos < r.lines[handle] THEN pos + 1 ELSE 0

\* sys.stdout.write(line)
sys_stdout_write(buffer, line) == Append(buffer, line)

\* sys.stdout.flush() left out
sys_stdout_flush_omitted(terminal, buffer) == [terminal |-> terminal, buffer |-> buffer]

\* sys.stdout.flush(): what is buffered reaches the terminal
sys_stdout_flush(terminal, buffer) == [terminal |-> terminal \o buffer, buffer |-> <<>>]

\* one iteration of the loop of lines 167-173
rpi_tmux_readline ==
    /\ tool.pc = "tail"
    /\ LET line == readline(rpi, tool.handle, tool.pos)
           buffer == sys_stdout_write(tool.unflushed,
                         [text |-> "line", line |-> line])
           flushed == sys_stdout_flush(stdout, buffer)
       IN IF line # 0
          THEN /\ stdout' = flushed.terminal
               /\ tool' = [Overlap(tool, "readline") EXCEPT
                              !.pos = line, !.unflushed = flushed.buffer]
          ELSE /\ tool' = Overlap(tool, "readline")
               /\ stdout' = stdout
    /\ UNCHANGED <<rpi, commands, issued, faults, uploadVars, sensor>>

\* a handler that prints nothing
except_KeyboardInterrupt_silent == <<>>

\* what the handler of lines 174-175 prints
except_KeyboardInterrupt == << tmux_session_msg >>

\* Ctrl-C inside the try block: lines 174-175, then rpi_tmux returns
rpi_tmux_KeyboardInterrupt ==
    /\ tool.pc = "tail"
    /\ stdout' = stdout \o << [text |-> "^C", line |-> 0] >>
                        \o tool.unflushed \o except_KeyboardInterrupt
    /\ tool' = [Returning(tool) EXCEPT !.unflushed = <<>>]
    /\ rpi' = Collect(rpi, 0)
    /\ UNCHANGED <<commands, issued, faults, uploadVars, sensor>>

NextMain ==
    \/ main_statement
    \/ SshClient_enter
    \/ SshClient_exit
    \/ KeyboardInterrupt
    \/ rpi_check_logger
    \/ rpi_kill_logger_kill
    \/ rpi_kill_logger_return
    \/ rpi_upload_app
    \/ install_tmux
    \/ rpi_tmux_restart
    \/ rpi_tmux_has_session
    \/ rpi_tmux_check_pipe
    \/ rpi_tmux_command
    \/ rpi_tmux_probe
    \/ rpi_tmux_not_found
    \/ rpi_tmux_open
    \/ rpi_tmux_start
    \/ rpi_tmux_readline
    \/ rpi_tmux_KeyboardInterrupt
    \/ tmux_kill_session
    \/ rm_tmux_log
    \/ tmux_new_session
    \/ tmux_pipe_pane
    \/ tmux_send_keys
    \/ pane_output
    \/ process_exits

\* one invocation of the tool, against a Raspberry Pi in any state
InitMain ==
    /\ local = [p \in Paths |-> IF p = <<>> THEN Directory(16877) ELSE NoEntry]
    /\ localRoot \in LocalRootsPlain
    /\ remote = [p \in Paths |-> NoEntry]
    /\ remoteRoot \in RemoteRootsPlain
    /\ remoteClock = 1
    /\ remote0 = remote
    /\ phase = "idle"
    /\ run = 0
    /\ todo = <<>>
    /\ stack = <<>>
    /\ log = <<>>
    /\ faults \in 0..MaxFaults
    /\ rpi \in RpiStates
    /\ commands = <<>>
    /\ tool \in {main(args) : args \in ArgSets}
    /\ stdout = <<>>
    /\ issued = <<>>
    /\ sensor = SensorIdle

SpecMain == InitMain /\ [][NextMain]_vars

\* the tail loop is reached only by the runs in which the status query and
\* the probes met no failure of the link
InitTail == InitMain /\ faults = 0

\* the tool is running and is scheduled: an iteration of the tail loop that
\* can read a line is taken
SpecTail == InitTail /\ [][NextMain]_vars /\ WF_vars(rpi_tmux_readline)

(***************************************************************************)
(* rpi_ds18b20_temperature_logger/temperature_logger.py:                   *)
(* Ds18b20TemperatureSensor.read_temperature (lines 86-114) and            *)
(* TemperatureSensor.read_temperature_raw (lines 49-58).  A line of the    *)
(* device file is a sequence of characters.                                *)
(***************************************************************************)
\* what the w1_slave file of the sensor may hold when it is read
DeviceFiles ==
    { << <<"Y","E","S","\n">>, <<"t","=","2","3","1","2","5","\n">> >>,
      << <<"c"," ","Y","E","S"," ","\n">>, <<"a"," ","t","=","-","5","1","0","\n">> >>,
      << <<"Y","E","S","\n">>, <<"t","=","8","5","0","0","0">> >>,
      << <<"Y","E","S","\n">>, <<"a","\n">> >>,
      << <<"Y","E","S","\n">>, <<"t","=","x","\n">> >>,
      << <<"Y","E","S","\n">>, <<"t","=","\n">> >>,
      << <<"Y","E","S","\n">> >>,
      << <<"c"," ","N","O","\n">>, <<"t","=","2","3","1","2","5","\n">> >>,
      << <<"E","S","\n">>, <<"t","=","2","3","1","2","5","\n">> >>,
      << <<"Y","E","S","x","\n">>, <<"t","=","2","3","1","2","5","\n">> >>,
      << <<"\n">> >>,
      << >> }

\* the outcomes of read_temperature_raw (lines 51-58): the lines of the file,
\* or None with the status of the exception
RawReads ==
    {[lines |-> Lines(f), status |-> ""] : f \in DeviceFiles}
        \cup {[lines |-> NoLines, status |-> "SensorNotFound"],
              [lines |-> NoLines, status |-> "UnexpectedError[PermissionError]"]}

IsSpace(c) == c \in {" ", "\n", "\t"}

\* the characters of the line that are not white space
Inked(line) == {i \in DOMAIN line : ~IsSpace(line[i])}

\* str.strip(): the line from its first to its last character that is not
\* white space
strip(line) ==
    IF Inked(line) = {} THEN <<>>
    ELSE SubSeq(line, CHOOSE i \in Inked(line) : \A j \in Inked(line) : i <= j,
                      CHOOSE i \in Inked(line) : \A j \in Inked(line) : i >= j)

\* line[-3:]
last3(line) == IF Len(line) <= 3 THEN line ELSE SubSeq(line, Len(line) - 2, Len(line))

\* line 96: lines[0].strip()[-3:] == 'YES'
crc_ok(lines) == last3(strip(lines[1])) = <<"Y", "E", "S">>

\* line 104: lines[1].find('t='), as a 0-based index, -1 when there is none
find_t(line) ==
    LET hits == {i \in 1..(Len(line) - 1) : line[i] = "t" /\ line[i + 1] = "="}
    IN IF hits = {} THEN -1 ELSE (CHOOSE i \in hits : \A j \in hits : i <= j) - 1

Digits == <<"0", "1", "2", "3", "4", "5", "6", "7", "8", "9">>

DigitValue(c) == (CHOOSE d \in DOMAIN Digits : Digits[d] = c) - 1

IsDigit(c) == \E d \in DOMAIN Digits : Digits[d] = c

\* the number the first n of the digits write
RECURSIVE DecimalUpTo(_, _)
DecimalUpTo(digits, n) ==
    IF n = 0 THEN 0 ELSE 10 * DecimalUpTo(digits, n - 1) + DigitValue(digits[n])

Decimal(digits) == DecimalUpTo(digits, Len(digits))

\* the value of a text without white space around it: an optionally signed
\* run of digits; anything else is a ValueError
float_stripped(t) ==
    LET signed == t # <<>> /\ Head(t) = "-"
        digits == IF signed THEN Tail(t) ELSE t
    IN IF digits = <<>> \/ \E i \in DOMAIN digits : ~IsDigit(digits[i])
       THEN [error |-> TRUE, v |-> 0]
       ELSE [error |-> FALSE, v |-> IF signed THEN 0 - Decimal(digits) ELSE Decimal(digits)]

\* float(temp_string) for the texts of DeviceFiles, which ignores white space
\* around the number
float(text) == CHOOSE value \in {float_stripped(t) : t \in {strip(text)}} : TRUE

\* round(millidegrees / 1000.0, 1), in tenths of a degree; no reading of
\* DeviceFiles lies halfway between two tenths
round1(millidegrees) == (millidegrees + 50) \div 100

Return(s, temperature, status) ==
    [s EXCEPT !.pc = "returned", !.result = [temperature |-> temperature, status |-> status]]

\* retries in a loop that never counts down
retries_left_unchanged(retries) == retries

\* line 101: retries -= 1
retries_left(retries) == retries - 1

\* the logger calls sensor.read_temperature(), for the first time or again
\* after a call that returned: line 91
read_temperature ==
    /\ sensor.pc \in {"idle", "returned"}
    /\ sensor' = [SensorIdle EXCEPT !.pc = "read", !.retries = 5]
    /\ UNCHANGED <<faults, mainVars, uploadVars>>

\* line 93: lines, status = self.read_temperature_raw()
read_temperature_raw ==
    /\ sensor.pc = "read"
    /\ \E raw \in RawReads :
        sensor' = [sensor EXCEPT !.pc = "check",
                                 !.lines = raw.lines,
                                 !.status = raw.status,
                                 !.history = Append(@, raw)]
    /\ UNCHANGED <<faults, mainVars, uploadVars>>

\* lines 94-101: the rest of one iteration of the while loop
read_temperature_check ==
    /\ sensor.pc = "check"
    /\ sensor' =
         IF sensor.lines.none THEN Return(sensor, NoTemperature, sensor.status)
         ELSE IF sensor.lines.v = <<>>
              THEN [sensor EXCEPT !.pc = "raised", !.status = "IndexError"]
         ELSE IF crc_ok(sensor.lines.v) THEN [sensor EXCEPT !.pc = "parse"]
         ELSE IF sensor.retries = 0 THEN Return(sensor, NoTemperature, "SensorDataCorrupted")
         ELSE [sensor EXCEPT !.pc = "read", !.retries = retries_left(@)]
    /\ UNCHANGED <<faults, mainVars, uploadVars>>

\* lines 104-114: the temperature is taken from the second line; what the
\* function returns, or the IndexError of a file without a second line
temperature_of(lines) ==
    IF Len(lines) < 2
    THEN [raised |-> TRUE, temperature |-> NoTemperature, status |-> "IndexError"]
    ELSE LET line == lines[2]
             equals_pos == find_t(line)
             temp_string == SubSeq(line, equals_pos + 3, Len(line))
             value == float(temp_string)
         IN IF equals_pos = -1
            THEN [raised |-> FALSE, temperature |-> NoTemperature,
                  status |-> "TemperatureValueMissing"]
            ELSE IF value.error
                 THEN [raised |-> FALSE, temperature |-> NoTemperature,
                       status |-> "TemperatureValueError"]
                 ELSE [raised |-> FALSE, temperature |-> Temperature(round1(value.v)),
                       status |-> ""]

\* the loop was left by the break of line 97
read_temperature_parse ==
    /\ sensor.pc = "parse"
    /\ \E end \in {temperature_of(sensor.lines.v)} :
        sensor' = IF end.raised
                  THEN [sensor EXCEPT !.pc = "raised", !.status = end.status]
                  ELSE Return(sensor, end.temperature, end.status)
    /\ UNCHANGED <<faults, mainVars, uploadVars>>

NextSensor ==
    \/ read_temperature
    \/ read_temperature_raw
    \/ read_temperature_check
    \/ read_temperature_parse

\* a sensor object, before the logger reads it
InitSensor ==
    /\ local = [p \in Paths |-> IF p = <<>> THEN Directory(16877) ELSE NoEntry]
    /\ localRoot \in LocalRootsPlain
    /\ remote = [p \in Paths |-> NoEntry]
    /\ remoteRoot \in RemoteRootsPlain
    /\ remoteClock = 1
    /\ remote0 = remote
    /\ phase = "idle"
    /\ run = 0
    /\ todo = <<>>
    /\ stack = <<>>
    /\ log = <<>>
    /\ faults = 0
    /\ rpi = RpiBare
    /\ commands = <<>>
    /\ tool = ToolIdle
    /\ stdout = <<>>
    /\ issued = <<>>
    /\ sensor = SensorIdle

\* the logger's thread is scheduled: a call that can take a step takes it
SpecSensor == InitSensor /\ [][NextSensor]_vars /\ WF_vars(NextSensor)

(***************************************************************************)
(* Vocabulary of the properties.                                           *)
(***************************************************************************)
Kind(e) ==
    IF e.st_mode = 0 THEN "absent"
    ELSE IF S_ISDIR(e.st_mode) THEN "directory" ELSE "file"

Entries == Paths \ {<<>>}

IsPrefix(p, q) == Len(p) <= Len(q) /\ SubSeq(q, 1, Len(p)) = p

\* positions of the trace holding a request of the given kinds
Requests(ops) == {i \in 1..Len(log) : log[i].op \in ops}

\* upload_recursive has returned normally
Completed == phase = "done"

\* the deletion pass has returned and the upload pass has not been called yet
DeletionPassOver ==
    phase = "sync" /\ stack = <<>> /\ todo = <<"_upload_dir">>

\* every directory of the remote tree had mode 0o40755 when the call began
Modes755 == \A p \in Paths : S_ISDIR(remote0[p].st_mode) => remote0[p].st_mode = 16877

\* a path that is a file on one side and a directory on the other at the start
KindMismatch(p) ==
    /\ Kind(remote0[p]) # "absent"
    /\ Kind(local[p]) # "absent"
    /\ Kind(remote0[p]) # Kind(local[p])

\* a request of the trace that changed the remote tree
Effective(i) ==
    /\ log[i].op \in {"put", "mkdir", "remove", "rmdir"}
    /\ log[i].res = "ok"

\* the local files the upload pass is to consider, and the puts issued for one
LocalFiles == {p \in Entries : S_ISREG(local[p].st_mode) /\ ~_is_excluded(localRoot, p)}

Puts(p) == {i \in Requests({"put"}) : log[i].path = p}

\* a remote file, not excluded, without local counterpart when the sync began
Orphan(p) ==
    /\ S_ISREG(remote0[p].st_mode)
    /\ ~_is_excluded(remoteRoot, p)
    /\ ~exists(p)

\* the functions of the upload pass
UploadPass == {"_upload_dir", "_upload_file_if_newer"}

\* a failed request whose failure is neither "no such entry" nor "exists"
HardFailure(i) == log[i].res \in {"EACCES", "Failure"}

(***************************************************************************)
(* C1.  Exclusion isolation: the remote subtree under every excluded       *)
(* remote path is the same during and after a sync as it was before it.    *)
(***************************************************************************)
C1_ExclusionIsolation ==
    \A p \in Entries :
        _is_excluded(remoteRoot, p) =>
            \A q \in Entries : IsPrefix(p, q) => remote[q] = remote0[q]

(***************************************************************************)
(* C2.  Mirror: after a sync that returns normally, the non-excluded       *)
(* remote paths are exactly the non-excluded local paths, with the same    *)
(* kinds.  Stated for remote trees whose directories all have mode 0755.   *)
(***************************************************************************)
C2_MirrorAfterSync ==
    (Completed /\ Modes755) =>
        \A p \in Entries :
            ~_is_excluded(localRoot, p) => Kind(remote[p]) = Kind(local[p])

(***************************************************************************)
(* C3.  Kind-mismatch replacement: a non-excluded path that is a file on   *)
(* one side and a directory on the other when the sync begins has the      *)
(* local kind when the sync has returned.  Stated for remote trees whose   *)
(* directories all have mode 0755.                                         *)
(***************************************************************************)
C3_KindMismatchReplaced ==
    (Completed /\ Modes755) =>
        \A p \in Entries :
            (~_is_excluded(remoteRoot, p) /\ KindMismatch(p)) =>
                Kind(remote[p]) = Kind(local[p])

(***************************************************************************)
(* C4.  Idempotence: a sync that follows a sync that returned, with the    *)
(* local tree unchanged, uploads nothing, creates no directory and         *)
(* removes nothing.  Stated for the requests that took effect, and for     *)
(* remote trees whose directories all have mode 0755.                      *)
(***************************************************************************)
C4_SecondSyncIdle ==
    (run >= 2 /\ Modes755) => \A i \in 1..Len(log) : ~Effective(i)

(***************************************************************************)
(* C5.  Upload decision: sftp.put is not issued for a non-excluded local   *)
(* file whose remote file was at least as new when the sync began; it is   *)
(* issued, by a sync that returns, for one whose remote file was missing   *)
(* or strictly older; and it is issued at most once per file and sync.     *)
(***************************************************************************)
C5_UploadIffNewer ==
    \A p \in LocalFiles :
        /\ (S_ISREG(remote0[p].st_mode) /\ remote0[p].st_mtime >= local[p].st_mtime)
              => Puts(p) = {}
        /\ (Completed /\ ( \/ remote0[p].st_mode = 0
                           \/ /\ S_ISREG(remote0[p].st_mode)
                              /\ remote0[p].st_mtime < local[p].st_mtime ))
              => Puts(p) # {}
        /\ Cardinality(Puts(p)) <= 1

(***************************************************************************)
(* C6.  Freshness: after a sync that returned, the remote copy of every    *)
(* non-excluded local file has a modification time that is not older than  *)
(* the local file's.                                                       *)
(***************************************************************************)
C6_Freshness ==
    Completed =>
        \A p \in LocalFiles :
            S_ISREG(remote[p].st_mode) => remote[p].st_mtime >= local[p].st_mtime

(***************************************************************************)
(* C7.  Orphan removal: when the deletion pass is over, no remote file     *)
(* that is not excluded and has no local counterpart is left, whatever     *)
(* the modes of the directories above it.                                  *)
(***************************************************************************)
C7_OrphanRemoved ==
    DeletionPassOver => \A p \in Entries : Orphan(p) => remote[p] = NoEntry

(***************************************************************************)
(* C8.  Pass order: within one sync no sftp.remove or sftp.rmdir is        *)
(* issued after an sftp.mkdir or sftp.put, and once a function of the      *)
(* upload pass has issued a request no function of the deletion pass       *)
(* issues one.                                                             *)
(***************************************************************************)
C8_DeletionBeforeUpload ==
    \A i, j \in 1..Len(log) :
        i < j =>
            /\ log[i].op \in {"mkdir", "put"} => log[j].op \notin {"remove", "rmdir"}
            /\ log[i].fn \in UploadPass => log[j].fn \in UploadPass

\* C8, witness: a sync in which the deletion pass removed something and the
\* upload pass then created a directory or uploaded a file
C8_Witness ==
    \E i, j \in 1..Len(log) :
        /\ i < j
        /\ log[i].op \in {"remove", "rmdir"} /\ log[i].res = "ok"
        /\ log[j].op \in {"mkdir", "put"} /\ log[j].res = "ok"

(***************************************************************************)
(* C9.  Exclusion is a function of the relative path: within one sync the  *)
(* deletion pass and the upload pass decide alike for the same relative    *)
(* path, wherever the two root directories are.                            *)
(***************************************************************************)
C9_SameDecision ==
    \A i, j \in Requests({"_is_excluded"}) :
        log[i].path = log[j].path => log[i].res = log[j].res

(***************************************************************************)
(* C10. Error propagation: a transfer failure other than "no such entry"   *)
(* (and other than mkdir finding the directory in place) ends the sync     *)
(* with the error raised; no request follows it.                           *)
(***************************************************************************)
C10_OnlyNotFoundAbsorbed ==
    \A i \in 1..Len(log) :
        HardFailure(i) => (i = Len(log) /\ phase = "raised")

(***************************************************************************)
(* Vocabulary of the properties of tools/main.py.                          *)
(***************************************************************************)
\* the session exists, its pipe is attached and writes to the file at TMUX_LOG_PATH
RunningCaptured == rpi.session /\ rpi.pipe # 0 /\ rpi.capture = rpi.pipe

\* the tool is in rpi_tmux, or has just come back from it
InRpiTmux == tool.fn = "rpi_tmux" /\ tool.pc # "idle"

AttachOnly == InRpiTmux /\ ~tool.restart_application

\* rpi_tmux is through with the session: it tails the capture file, or it has
\* given up for a reason other than Ctrl-C or a tmux that cannot be installed
Ensured ==
    \/ tool.pc = "tail"
    \/ /\ tool.pc = "raised"
       /\ tool.err.type \in {"FailedToRunRpiTmux", "IndexError", "FileNotFoundError", "IOError"}

CommandsIssued(cmd) == {i \in DOMAIN issued : issued[i].cmd = cmd}

\* the pane-pipe status query has answered, and not with "1"
NotConnected ==
    \E i \in CommandsIssued("display-message") :
        issued[i].res = <<>> \/ Head(issued[i].res) # "1"

\* commands that read the state of the Raspberry Pi and change nothing
ReadOnly == {"which tmux", "has-session", "display-message"}

StepsLeft(i) == {commands[i].steps[k] : k \in DOMAIN commands[i].steps}

\* the remote shell of command i runs its next step in this transition
Runs(i) ==
    /\ i \in DOMAIN commands
    /\ i \in DOMAIN commands'
    /\ commands[i].steps # commands'[i].steps

\* the lines of the capture file the tool has written to the terminal
Written == SelectSeq(stdout, LAMBDA e : e.text = "line")

Interrupts == {i \in DOMAIN stdout : stdout[i].text = "^C"}

Reminders == {i \in DOMAIN stdout : stdout[i].text = "tmux_session_msg"}

\* main calls rpi_tmux with restart_application only when --rpi-run-logger or
\* --rpi-copy-code is among the flags, whatever the other flags are
RestartOnlyOnRequest ==
    \A args \in SUBSET Flags :
        (\E i \in DOMAIN main_body(args) : main_body(args)[i] = Statement("rpi_tmux", TRUE))
            => args \cap {"rpi_run_logger", "rpi_copy_code"} # {}

(***************************************************************************)
(* C11: the capture-file presence check makes at most 10 probes; a probe   *)
(* is made only while every earlier one answered "file not found"; the     *)
(* check goes on to open the file right after the first probe that finds   *)
(* it; it raises FileNotFoundError naming TMUX_LOG_PATH after exactly 10   *)
(* probes that did not find it; any other failure of a probe is raised at  *)
(* once.                                                                   *)
(***************************************************************************)
C11_BoundedPolling ==
    /\ tool.probes <= 10
    /\ tool.pc = "probe" =>
          /\ tool.probe \in {"none", "ENOENT"}
          /\ tool.probe = "none" <=> tool.probes = 0
    /\ tool.pc \in {"open", "start"} => tool.probe = "ok" /\ tool.probes \in 1..10
    /\ tool.pc = "raised" /\ tool.err.type = "FileNotFoundError" =>
          /\ tool.probes = 10
          /\ tool.probe = "ENOENT"
          /\ tool.err.arg = TMUX_LOG_PATH
    /\ tool.probe \notin {"none", "ENOENT", "ok"} =>
          /\ tool.pc = "raised"
          /\ tool.err = [type |-> "IOError", arg |-> tool.probe]

\* the file never appeared: ten probes, then the error
C11_Witness ==
    /\ tool.pc = "raised"
    /\ tool.err.type = "FileNotFoundError"
    /\ tool.probes = 10

(***************************************************************************)
(* C12: when rpi_tmux is called and the session is absent, it ends with    *)
(* the session running and captured, with or without restart_application.  *)
(***************************************************************************)
C12_AbsentIsCreated ==
    (InRpiTmux /\ ~tool.entry.session /\ Ensured) => RunningCaptured

(***************************************************************************)
(* C13: when rpi_tmux is called without restart, the session exists and    *)
(* the pane-pipe query does not answer "connected" (whatever it prints,    *)
(* nothing included), the capture file is removed, then the pipe attached, *)
(* and rpi_tmux ends with the session running and captured.                *)
(***************************************************************************)
C13_MissingPipeAttached ==
    (AttachOnly /\ tool.entry.session /\ NotConnected /\ Ensured) =>
        /\ CommandsIssued("attach") # {}
        /\ RunningCaptured

(***************************************************************************)
(* C14: when rpi_tmux is called without restart and the session exists     *)
(* with its pipe attached, only commands that read state are issued, and   *)
(* session, pipe and capture file stay as they were.                       *)
(***************************************************************************)
C14_AttachedIsNoOp ==
    (AttachOnly /\ tool.entry.session /\ tool.entry.pipe # 0) =>
        /\ \A i \in DOMAIN issued : issued[i].cmd \in ReadOnly /\ issued[i].awaited
        /\ commands = <<>>
        /\ rpi.session
        /\ rpi.pipe = tool.entry.pipe
        /\ rpi.capture = tool.entry.capture

\* an attach-only call on a captured session has got as far as tailing
C14_Witness ==
    /\ AttachOnly
    /\ tool.entry.session
    /\ tool.entry.pipe # 0
    /\ tool.pc = "tail"
    /\ CommandsIssued("display-message") # {}

(***************************************************************************)
(* C15: on a restart no kill-session or rm step runs after a new-session   *)
(* step of the same restart has run.                                       *)
(***************************************************************************)
C15_KillAndClearFirst ==
    [][\A i \in DOMAIN commands :
          (/\ Runs(i)
           /\ commands[i].cmd = "restart"
           /\ Head(commands[i].steps) \in {"kill-session", "rm"})
          => \A j \in DOMAIN commands :
                commands[j].cmd = "restart" => "new-session" \in StepsLeft(j)]_vars

(***************************************************************************)
(* C16: tmux send-keys is issued only by a call of rpi_tmux with           *)
(* restart_application, and main makes such a call only for                *)
(* --rpi-run-logger and --rpi-copy-code, whatever other flags are given.   *)
(***************************************************************************)
C16_StartOnlyOnRequest ==
    /\ CommandsIssued("send-keys") # {} =>
          tool.args \cap {"rpi_run_logger", "rpi_copy_code"} # {}
    /\ (tool.pc # "idle" /\ CommandsIssued("send-keys") # {}) =>
          tool.fn = "rpi_tmux" /\ tool.restart_application
    /\ \A i \in DOMAIN commands :
          commands[i].cmd = "send-keys" =>
              tool.args \cap {"rpi_run_logger", "rpi_copy_code"} # {}
    /\ RestartOnlyOnRequest

\* the start command has been sent after an upload
C16_Witness ==
    /\ tool.args = {"rpi_copy_code"}
    /\ CommandsIssued("send-keys") # {}
    /\ tool.pc = "tail"

(***************************************************************************)
(* C17: at most one remote call is in flight: no remote command or file    *)
(* operation is issued while an earlier command is still running.          *)
(***************************************************************************)
C17_OneInFlight ==
    /\ tool.overlap = "none"
    /\ Cardinality(InFlight) <= 1

(***************************************************************************)
(* C18: when rpi_kill_logger raises FailedToKillRpiProcessError, the error *)
(* names the id whose kill returned a non-zero exit status, the kills were *)
(* issued in list order, and every earlier kill returned 0.                *)
(***************************************************************************)
C18_KillFailureNamesId ==
    (tool.pc = "raised" /\ tool.err.type = "FailedToKillRpiProcessError") =>
        LET n == Len(issued)
        IN /\ n \in 1..Len(tool.valid_proc_ids)
           /\ \A i \in 1..n :
                 /\ issued[i].cmd = "kill"
                 /\ issued[i].res.pid = tool.valid_proc_ids[i]
                 /\ i < n => issued[i].res.exit_status = 0
           /\ issued[n].res.exit_status # 0
           /\ tool.err.arg = issued[n].res.pid

\* [111, 222]: 111 was signalled, the kill of 222 failed
C18_Witness ==
    /\ tool.pc = "raised"
    /\ tool.err = [type |-> "FailedToKillRpiProcessError", arg |-> "222"]
    /\ tool.valid_proc_ids = <<"111", "222">>
    /\ Len(issued) = 2

C20_InterruptEndsTail ==
    /\ tool.pc = "tail" =>
          /\ Interrupts = {}
          /\ Reminders = {1}
    /\ (InRpiTmux /\ tool.pc = "main") =>
          /\ Interrupts = {Len(stdout) - 1}
          /\ Reminders = {1, Len(stdout)}
          /\ tool.err = NoError
          /\ tool.ssh = "open"
    /\ (\E i \in Interrupts : i > 1) => tool.err = NoError
    /\ (tool.pc = "idle" /\ Interrupts # {}) => tool.ssh = "closed"

\* Ctrl-C after some lines: rpi_tmux is back in main
C20_Witness ==
    /\ InRpiTmux
    /\ tool.pc = "main"
    /\ Len(Written) > 0

(***************************************************************************)
(* C21: when the invocation has ended, the success banner has been printed *)
(* if and only if no requested action raised.                              *)
(***************************************************************************)
C21_SuccessBanner ==
    tool.pc = "idle" =>
        ((\E i \in DOMAIN stdout : stdout[i].text = "SUCCESS!") <=> tool.err = NoError)

(***************************************************************************)
(* C22: the connection is opened at most once in an invocation, and once   *)
(* in every invocation that runs an action; it is open while the actions   *)
(* run and closed when the invocation has ended, whether main came to its  *)
(* end, an action raised or Ctrl-C was pressed; an invocation that could   *)
(* not connect leaves nothing open.                                        *)
(***************************************************************************)
C22_ChannelScoped ==
    /\ tool.connects <= 1
    /\ tool.pc \notin {"with", "idle"} => tool.connects = 1 /\ tool.ssh = "open"
    /\ tool.pc = "with" => tool.connects = 0 /\ tool.ssh = "None"
    /\ tool.pc = "idle" =>
          /\ tool.ssh # "open"
          /\ tool.connects = 1 <=> tool.ssh = "closed"
          /\ tool.err.type # "SSHException" => tool.connects = 1

\* an action raised (the capture file did not appear) and the invocation has
\* ended
C22_Witness ==
    /\ tool.pc = "idle"
    /\ tool.err.type = "FileNotFoundError"
    /\ tool.connects = 1
    /\ tool.ssh = "closed"

(***************************************************************************)
(* C23: once the restart path of rpi_tmux has sent its session command     *)
(* twice and both executions have run to their end on the Raspberry Pi,    *)
(* the session exists, its pipe is attached, and the file at TMUX_LOG_PATH *)
(* exists and is the file the pipe writes to.                              *)
(***************************************************************************)
C23_RestartRaceSettles ==
    (/\ Cardinality({i \in DOMAIN commands : commands[i].cmd = "restart"}) = 2
     /\ \A i \in DOMAIN commands : commands[i].cmd = "restart" => commands[i].steps = <<>>)
        => /\ rpi.session
           /\ rpi.pipe # 0
           /\ rpi.capture # 0
           /\ rpi.pipe = rpi.capture

(***************************************************************************)
(* C24: while the start command of a run or upload-code action is on its   *)
(* way into the session, none of the processes the preceding pgrep found   *)
(* is still there (every kill has returned 0, or rpi_tmux would not have   *)
(* been called).                                                           *)
(***************************************************************************)
C24_KilledBeforeStart ==
    (/\ InRpiTmux
     /\ tool.restart_application
     /\ \E i \in InFlight : commands[i].cmd = "send-keys")
        => \A k \in DOMAIN tool.valid_proc_ids : rpi.procs[tool.valid_proc_ids[k]] = "none"

(***************************************************************************)
(* C25: rpi_kill_logger stops at the first kill that fails: the kills were *)
(* issued in list order up to the failing one, which is the last remote    *)
(* call of the invocation; no kill is issued for a later id, the function  *)
(* does not return (no settle wait), and no later action of the invocation *)
(* (session restart, program start) is executed.                           *)
(***************************************************************************)
C25_StopAtFirstFailure ==
    /\ [](tool.err.type = "FailedToKillRpiProcessError" =>
            /\ tool.pc \in {"raised", "idle"}
            /\ issued # <<>>
            /\ issued[Len(issued)].cmd = "kill"
            /\ issued[Len(issued)].res.exit_status # 0
            /\ \A i \in DOMAIN issued : issued[i].cmd \in {"pgrep", "kill"}
            /\ commands = <<>>
            /\ tool.pc = "raised" =>
                  /\ tool.next <= Len(tool.valid_proc_ids)
                  /\ Cardinality(CommandsIssued("kill")) = tool.next
                  /\ \A i \in CommandsIssued("kill") :
                        \E k \in 1..tool.next :
                            /\ issued[i].res.pid = tool.valid_proc_ids[k]
                            /\ \A j \in CommandsIssued("kill") :
                                  (j < i) <=> \E m \in 1..(k - 1) :
                                                 issued[j].res.pid = tool.valid_proc_ids[m])
    /\ [][tool.err.type = "FailedToKillRpiProcessError" =>
            /\ issued' = issued
            /\ commands' = commands
            /\ rpi' = rpi
            /\ tool'.pc \in {"raised", "idle"}]_vars

\* --rpi-run-logger, [111, 222]: the kill of 111 failed, 222 is not tried and
\* the restart is still to come
C25_Witness ==
    /\ tool.pc = "raised"
    /\ tool.err = [type |-> "FailedToKillRpiProcessError", arg |-> "111"]
    /\ tool.valid_proc_ids = <<"111", "222">>
    /\ Len(issued) = 1
    /\ \E i \in DOMAIN tool.body : tool.body[i].fn = "rpi_tmux"
    /\ rpi.procs["222"] = "running"

(***************************************************************************)
(* C26: a kill, run or upload-code action does not fail only because a     *)
(* process that pgrep found ended on its own before its kill: when         *)
(* rpi_kill_logger raises, some process of its list is still there.        *)
(***************************************************************************)
C26_ExitedIsNotAFailure ==
    (/\ tool.pc = "raised"
     /\ tool.err.type = "FailedToKillRpiProcessError")
        => \E k \in DOMAIN tool.valid_proc_ids : rpi.procs[tool.valid_proc_ids[k]] # "none"

(***************************************************************************)
(* Vocabulary of the properties of read_temperature.                       *)
(***************************************************************************)
Reads == Len(sensor.history)

\* the line, but for white space at its end, ends with the letters YES
EndsInYES(line) ==
    \E i \in 1..(Len(line) - 2) :
        /\ line[i] = "Y" /\ line[i + 1] = "E" /\ line[i + 2] = "S"
        /\ \A j \in (i + 3)..Len(line) : IsSpace(line[j])

HasCrcLine(raw) == ~raw.lines.none /\ raw.lines.v # <<>>

CrcLineYes(raw) == HasCrcLine(raw) /\ EndsInYES(raw.lines.v[1])

CrcLineNo(raw) == HasCrcLine(raw) /\ ~EndsInYES(raw.lines.v[1])

(***************************************************************************)
(* C27: a call of read_temperature ends.  It reads the device file at most *)
(* 6 times, and again only after a read whose CRC line does not end in     *)
(* YES; it returns (None, 'SensorDataCorrupted') exactly after 6 such      *)
(* reads; when a raw read fails it returns (None, status) of that read,    *)
(* which is its last; it returns a temperature only from a read whose CRC  *)
(* line ends in YES.                                                       *)
(***************************************************************************)
C27_ReadTerminates ==
    /\ [](/\ Reads <= 6
          /\ \A i \in 1..(Reads - 1) : CrcLineNo(sensor.history[i])
          /\ sensor.pc = "returned" =>
                LET last == sensor.history[Reads]
                IN /\ last.lines.none =>
                         sensor.result = [temperature |-> NoTemperature, status |-> last.status]
                   /\ sensor.result.status = "SensorDataCorrupted" <=> CrcLineNo(last)
                   /\ CrcLineNo(last) => Reads = 6 /\ sensor.result.temperature.none
                   /\ ~sensor.result.temperature.none => CrcLineYes(last))
    /\ (sensor.pc = "read") ~> (sensor.pc \in {"returned", "raised"})

\* six reads with a bad CRC line: the sensor data is reported corrupted
C27_Witness ==
    /\ sensor.pc = "returned"
    /\ sensor.result = [temperature |-> NoTemperature, status |-> "SensorDataCorrupted"]
    /\ Reads = 6

====
